---- MODULE Spec2Model ----
(***************************************************************************)
(* Live voice pipeline of src/components/LiveVoiceMode.tsx: the session    *)
(* lifecycle (startSession / cleanup / the four connection callbacks), the *)
(* capture callback, and the playback scheduler (handleServerMessage /     *)
(* playAudioChunk).                                                       *)
(*                                                                         *)
(* Execution model: one JavaScript thread.  Every platform event is a task *)
(* (an action below); a task runs to completion and the microtasks it      *)
(* queued (promise continuations) run, in FIFO order, before the next      *)
(* task.  Hence every task action is guarded by  microtasks = << >>  and   *)
(* RunMicrotask runs the head of the queue.                                *)
(*                                                                         *)
(* Time is counted in output frames (1/24000 s), so that the duration of a *)
(* buffer of n frames is n and AudioContext.currentTime is an integer.     *)
(* Start instances (one per startSession call) are numbered 1, 2, ...; the *)
(* audio contexts, the microphone stream and the remote session created by *)
(* the k-th call all carry the number k, and a ref holding 0 is null.      *)
(*                                                                         *)
(* The audio codec of src/unnamed/part_001 (createPcmBlob and the base64   *)
(* helpers) and decodeRawPcm is modelled on sample values in SpecCodec: a  *)
(* sample is the numerator of a fraction over SampleDen, a byte is 0..255, *)
(* and a base64 string is the sequence of its characters' alphabet         *)
(* indices, 64 standing for the padding character.                         *)
(***************************************************************************)
EXTENDS Integers, Sequences, FiniteSets, TLC

\* ---------------------------------------------------------------- bounds
\* Spec explores the whole lifecycle (overlapping starts) with a short
\* playback history; SpecPlayback explores one session with a longer one.
MaxStarts == 2      \* startSession calls (Spec)
MaxNodes  == 1      \* playback nodes created (Spec)
MaxTime   == 1      \* largest currentTime of an output context (Spec)
MaxBlocks == 1      \* capture blocks encoded (Spec)
PlayStarts == 1     \* startSession calls (SpecPlayback)
PlayNodes  == 3     \* playback nodes created (SpecPlayback)
PlayTime   == 2     \* largest currentTime (SpecPlayback)
PlayBlocks == 1     \* capture blocks encoded (SpecPlayback)
MaxBytes  == 4      \* largest decoded payload, in bytes
SampleDen  == 65536 \* samples are multiples of 1/SampleDen (SpecCodec)
OverRange  == 2     \* numerators run this far beyond +-SampleDen (SpecCodec)
MaxSamples == 3     \* longest block of arbitrary samples (SpecCodec)
CapLen   == 2       \* samples of a captured block (Spec, SpecPlayback)
LevelDen == 4       \* captured samples are multiples of 1/LevelDen

\* ------------------------------------------------------------- constants
BlockSize   == 4096   \* createScriptProcessor(4096, 1, 1)
NegScale    == 32768  \* 0x8000
PosScale    == 32767  \* 0x7FFF
DecodeScale == 32768  \* dataInt16[i] / 32768.0
VolumeGain  == 5      \* Math.min(rms * 5, 1)

Inst == 1..MaxStarts

\* inlineData absent, or its data string empty (falsy)
NoData == 0 - 1

Payloads == NoData..MaxBytes

DecodeError == 0 - 1

\* a payload that is no whole, non-empty sequence of 16-bit samples
Malformed(byteLen) == byteLen % 2 # 0 \/ byteLen = 0

Statuses == {"connecting", "connected", "error", "disconnected"}

VARIABLES
  isOpen,              \* prop isOpen of the (always mounted) component
  status,              \* useState status
  isMuted,             \* useState isMuted
  inputContextRef, outputContextRef, streamRef, processorRef, sourceRef,
  outputNodeRef,       \* refs: 0 = null, k = the object made by start k
  nextStartTimeRef,    \* Next-Start-Time Cursor
  activeSourcesRef,    \* Active Playback Set: indices into nodes
  sessionPromiseRef,   \* 0 = null, k = promise returned by the k-th connect
  nstarts,             \* number of startSession calls so far
  startPc,             \* per start: "idle" | "awaitMedia" | "done" |
                       \*            "failed" (left through the catch block)
  closureMuted,        \* per start: isMuted as captured by its closures
  inCtx, outCtx,       \* per start: "none" | "running" | "closed"
  stream,              \* per start: "none" | "live" | "stopped"
  promise,             \* per start: "none" | "pending" | "resolved" | "rejected"
  conn,                \* per start: "none" | "connecting" | "open" |
                       \*            "closed" | "closedEarly"
  closeCalled,         \* per start: session.close() has been called
  thenQueue,           \* per start: callbacks waiting on the pending promise
  processor,           \* per start: onaudioprocess installed and connected
  clock,               \* per start: currentTime of its output context
  nodes,               \* every AudioBufferSourceNode created, in order
  resetSince,          \* cursor was reset since the last scheduled node
  microtasks,          \* FIFO of pending promise continuations
  nblocks,             \* capture blocks encoded so far
  sends,               \* log of sendRealtimeInput calls
  volume,              \* useState volume, held as its square: the numerator
                       \*   of volume^2 over VolumeDen
  lastOp,              \* the handler that ran last (observation only)
  codecPc,             \* codec round trip: "idle" | "input" | "encoded" |
                       \*   "received" | "decoded" | "failed"
  inputData,           \* Float32Array handed to createPcmBlob (numerators)
  pcmData,             \* the base64 string createPcmBlob returned
  arrayBuffer,         \* bytes returned by base64ToArrayBuffer
  channelData          \* samples written by decodeRawPcm, over DecodeScale

playerVars == << isOpen, status, isMuted, inputContextRef, outputContextRef,
                 streamRef, processorRef, sourceRef, outputNodeRef,
                 nextStartTimeRef, activeSourcesRef, sessionPromiseRef,
                 nstarts, startPc, closureMuted, inCtx, outCtx, stream,
                 promise, conn, closeCalled, thenQueue, processor, clock,
                 nodes, resetSince, microtasks, nblocks, sends, volume,
                 lastOp >>

codecVars == << codecPc, inputData, pcmData, arrayBuffer, channelData >>

vars == << playerVars, codecVars >>

\* The current state as one record, so that handlers compose as functions.
Cur ==
  [ isOpen |-> isOpen, status |-> status, isMuted |-> isMuted,
    inputContextRef |-> inputContextRef,
    outputContextRef |-> outputContextRef, streamRef |-> streamRef,
    processorRef |-> processorRef, sourceRef |-> sourceRef,
    outputNodeRef |-> outputNodeRef, nextStartTimeRef |-> nextStartTimeRef,
    activeSourcesRef |-> activeSourcesRef,
    sessionPromiseRef |-> sessionPromiseRef, nstarts |-> nstarts,
    startPc |-> startPc, closureMuted |-> closureMuted, inCtx |-> inCtx,
    outCtx |-> outCtx, stream |-> stream, promise |-> promise, conn |-> conn,
    closeCalled |-> closeCalled, thenQueue |-> thenQueue,
    processor |-> processor, clock |-> clock, nodes |-> nodes,
    resetSince |-> resetSince, microtasks |-> microtasks,
    nblocks |-> nblocks, sends |-> sends, volume |-> volume,
    lastOp |-> lastOp ]

Commit(s) ==
  /\ isOpen' = s.isOpen /\ status' = s.status /\ isMuted' = s.isMuted
  /\ inputContextRef' = s.inputContextRef
  /\ outputContextRef' = s.outputContextRef
  /\ streamRef' = s.streamRef /\ processorRef' = s.processorRef
  /\ sourceRef' = s.sourceRef /\ outputNodeRef' = s.outputNodeRef
  /\ nextStartTimeRef' = s.nextStartTimeRef
  /\ activeSourcesRef' = s.activeSourcesRef
  /\ sessionPromiseRef' = s.sessionPromiseRef /\ nstarts' = s.nstarts
  /\ startPc' = s.startPc /\ closureMuted' = s.closureMuted
  /\ inCtx' = s.inCtx /\ outCtx' = s.outCtx /\ stream' = s.stream
  /\ promise' = s.promise /\ conn' = s.conn
  /\ closeCalled' = s.closeCalled /\ thenQueue' = s.thenQueue
  /\ processor' = s.processor /\ clock' = s.clock /\ nodes' = s.nodes
  /\ resetSince' = s.resetSince /\ microtasks' = s.microtasks
  /\ nblocks' = s.nblocks /\ sends' = s.sends /\ volume' = s.volume
  /\ lastOp' = s.lastOp
  /\ UNCHANGED codecVars

\* x is the block a capture callback was handed, << >> for other handlers
Op(name, k, f1, f2) ==
  [op |-> name, k |-> k, f1 |-> f1, f2 |-> f2, x |-> << >>]

\* the value of lastOp after a handler that no property singles out
Quiet == Op("other", 0, FALSE, FALSE)

Max(a, b) == IF a < b THEN b ELSE a

Min(a, b) == IF a < b THEN a ELSE b

\* ------------------------------------------------------- promise plumbing
\* promise.then(cb): a microtask when the promise is already resolved, a
\* queued reaction while it is pending, never run when it is rejected.
Then(s, k, cb) ==
  IF s.promise[k] = "resolved"
    THEN [s EXCEPT !.microtasks = Append(@, cb)]
  ELSE IF s.promise[k] = "pending"
    THEN [s EXCEPT !.thenQueue[k] = Append(@, cb)]
  ELSE s

\* ------------------------------------------------------------- playback
\* source.stop() raises the StopError of the specification when the node has
\* already played to its end (its ended event is still to be dispatched)
StopRaises(s, n) ==
  s.clock[s.nodes[n].ctx] >= s.nodes[n].startAt + s.nodes[n].dur

\* variant: the first stop() that raises ends the forEach loop
StopSources_abortOnError(s) ==
  [s EXCEPT !.nodes =
     [n \in DOMAIN s.nodes |->
        IF /\ n \in s.activeSourcesRef /\ s.nodes[n].state = "started"
           /\ \A m \in s.activeSourcesRef : m < n => ~StopRaises(s, m)
          THEN [s.nodes[n] EXCEPT !.state = "stopped",
                                  !.stopError = StopRaises(s, n)]
          ELSE s.nodes[n]]]

\* forEach(source => { try { source.stop(); } catch(e) {} }) over the set, in
\* insertion order; stopError records that the call raised and was caught
StopSources(s) ==
  [s EXCEPT !.nodes =
     [n \in DOMAIN s.nodes |->
        IF n \in s.activeSourcesRef /\ s.nodes[n].state = "started"
          THEN [s.nodes[n] EXCEPT !.state = "stopped",
                                  !.stopError = StopRaises(s, n)]
          ELSE s.nodes[n]]]

\* activeSourcesRef.current.clear()
ClearSources(s) == [s EXCEPT !.activeSourcesRef = {}]

\* variant: a buffer of zero frames is accepted
decodeRawPcm_allowEmpty(byteLen) ==
  IF byteLen % 2 # 0 THEN DecodeError ELSE byteLen \div 2

\* variant: an odd trailing byte is dropped instead of failing
decodeRawPcm_truncating(byteLen) ==
  IF byteLen \div 2 = 0 THEN DecodeError ELSE byteLen \div 2

\* new Int16Array(arrayBuffer) throws a RangeError on an odd byte length, and
\* ctx.createBuffer(1, 0, 24000) throws NotSupportedError on zero frames;
\* otherwise the buffer has one frame per 16-bit sample.
decodeRawPcm(byteLen) ==
  IF byteLen % 2 # 0 THEN DecodeError
  ELSE IF byteLen \div 2 = 0 THEN DecodeError
  ELSE byteLen \div 2

\* playAudioChunk up to  await decodeRawPcm(...) : a throw lands in the catch
\* block (logged, nothing else), otherwise the rest is a continuation.
playAudioChunk(s, k, byteLen) ==
  LET frames == decodeRawPcm(byteLen)
  IN IF frames = DecodeError THEN s
     ELSE [s EXCEPT !.microtasks =
             Append(@, [t |-> "play", k |-> k, x |-> frames])]

\* variant: every chunk is scheduled at the current time
StartTime_immediate(cursor, currentTime) == currentTime

\* variant: the guard against scheduling in the past is missing
StartTime_unclamped(cursor, currentTime) == cursor

\* if (nextStartTimeRef.current < currentTime) nextStartTimeRef.current = currentTime
StartTime(cursor, currentTime) ==
  IF cursor < currentTime THEN currentTime ELSE cursor

\* variant: the cursor is not advanced by the duration
AdvanceCursor_noDuration(startAt, duration) == startAt

\* nextStartTimeRef.current += audioBuffer.duration
AdvanceCursor(startAt, duration) == startAt + duration

\* playAudioChunk after the await: create, schedule and register the node
playAudioChunkResume(s, k, frames) ==
  LET currentTime == s.clock[k]
      startAt == StartTime(s.nextStartTimeRef, currentTime)
      node == [ctx |-> k, startAt |-> startAt, dur |-> frames,
               schedAt |-> currentTime, fresh |-> s.resetSince,
               state |-> "started", stopError |-> FALSE]
      id == Len(s.nodes) + 1
  IN [s EXCEPT !.nodes = Append(@, node),
               !.nextStartTimeRef = AdvanceCursor(startAt, frames),
               !.activeSourcesRef = @ \cup {id},
               !.resetSince = FALSE]

\* variant: the reset leaves the cursor one unit past its old value
FlushCursor_pastEnd(s) == s.nextStartTimeRef + 1

\* variant: the interruption branch leaves the cursor alone
FlushCursor_keep(s) == s.nextStartTimeRef

\* nextStartTimeRef.current = 0 in the interruption branch
FlushCursor(s) == 0

\* variant: the set is cleared without stopping its members
flush_noStop(s) ==
  [ClearSources(s) EXCEPT !.nextStartTimeRef = FlushCursor(s),
                          !.resetSince = TRUE]

\* the interruption branch of handleServerMessage
flush(s) ==
  LET s1 == ClearSources(StopSources(s))
  IN [s1 EXCEPT !.nextStartTimeRef = FlushCursor(s), !.resetSince = TRUE]

\* handleServerMessage, synchronous part (the function never awaits itself)
handleServerMessage(s, k, byteLen, interrupted) ==
  LET s1 == IF byteLen # NoData THEN playAudioChunk(s, k, byteLen) ELSE s
  IN IF interrupted THEN flush(s1) ELSE s1

\* variant: the ended handler marks the node but leaves it in the set
onended_noDelete(s, n) == [s EXCEPT !.nodes[n].state = "ended"]

\* source.onended
onended(s, n) ==
  [s EXCEPT !.activeSourcesRef = @ \ {n}, !.nodes[n].state = "ended"]

\* -------------------------------------------------------------- capture
\* setupAudioInput: source and processor are created, the callback is
\* installed and the graph is connected
setupAudioInput(s, k) ==
  [s EXCEPT !.sourceRef = k, !.processorRef = k, !.processor[k] = TRUE]

\* the mute test of processor.onaudioprocess: isMuted of the closure
CaptureMuted(s, k) == s.closureMuted[k]

\* the blocks the audio subsystem hands to the callback: CapLen samples,
\* each the numerator of a fraction over LevelDen
Levels == {0 - 1, 0}

CaptureBlocks == [1..CapLen -> Levels]

\* sum += inputData[i] * inputData[i], over the first n samples
RECURSIVE SumSquares(_, _)
SumSquares(block, n) ==
  IF n = 0 THEN 0 ELSE SumSquares(block, n - 1) + block[n] * block[n]

\* the denominator of volume^2
VolumeDen == CapLen * LevelDen * LevelDen

\* Math.min(Math.sqrt(sum / inputData.length) * 5, 1), squared: the
\* numerator of min(25 * sum / length, 1) over length * LevelDen^2
Loudness(block) ==
  Min(VolumeGain * VolumeGain * SumSquares(block, Len(block)),
      Len(block) * LevelDen * LevelDen)

\* processor.onaudioprocess
onaudioprocess(s, k, block) ==
  IF CaptureMuted(s, k) THEN s
  ELSE LET b == s.nblocks + 1
       IN Then([s EXCEPT !.volume = Loudness(block), !.nblocks = b], k,
               [t |-> "send", k |-> k, x |-> b])

\* ------------------------------------------------------------- lifecycle
\* variant: the input context is left running
cleanup_inputOpen(s) ==
  LET p  == s.sessionPromiseRef
      s1 == IF p # 0
              THEN [Then(s, p, [t |-> "close", k |-> p, x |-> 0])
                      EXCEPT !.sessionPromiseRef = 0]
              ELSE s
      s2 == ClearSources(StopSources(s1))
      s4 == IF s2.outputContextRef # 0
              THEN [s2 EXCEPT !.outCtx[s2.outputContextRef] = "closed"]
              ELSE s2
      s5 == IF s4.streamRef # 0
              THEN [s4 EXCEPT !.stream[s4.streamRef] = "stopped"]
              ELSE s4
  IN [s5 EXCEPT !.inputContextRef = 0, !.outputContextRef = 0,
                !.status = "disconnected", !.volume = 0]

cleanup(s) ==
  LET p  == s.sessionPromiseRef
      s1 == IF p # 0
              THEN [Then(s, p, [t |-> "close", k |-> p, x |-> 0])
                      EXCEPT !.sessionPromiseRef = 0]
              ELSE s
      s2 == ClearSources(StopSources(s1))
      s3 == IF s2.inputContextRef # 0
              THEN [s2 EXCEPT !.inCtx[s2.inputContextRef] = "closed"]
              ELSE s2
      s4 == IF s3.outputContextRef # 0
              THEN [s3 EXCEPT !.outCtx[s3.outputContextRef] = "closed"]
              ELSE s3
      s5 == IF s4.streamRef # 0
              THEN [s4 EXCEPT !.stream[s4.streamRef] = "stopped"]
              ELSE s4
  IN [s5 EXCEPT !.inputContextRef = 0, !.outputContextRef = 0,
                !.status = "disconnected", !.volume = 0]

\* variant: the catch block only logs
startSessionCatch_silent(s, k) == [s EXCEPT !.startPc[k] = "failed"]

\* the catch block of startSession: an AudioContext constructor threw, or
\* getUserMedia rejected
startSessionCatch(s, k) ==
  [s EXCEPT !.status = "error", !.startPc[k] = "failed"]

\* startSession up to its first suspension (await getUserMedia) or to the
\* catch block.  fail names the AudioContext constructor that throws.
startSession(s, k, fail) ==
  LET s0 == [s EXCEPT !.status = "connecting", !.nextStartTimeRef = 0,
                      !.resetSince = TRUE, !.nstarts = k,
                      !.closureMuted[k] = s.isMuted]
      caught(t) == startSessionCatch(t, k)
      s1 == [s0 EXCEPT !.inCtx[k] = "running", !.inputContextRef = k]
      s2 == [s1 EXCEPT !.outCtx[k] = "running", !.outputContextRef = k,
                       !.outputNodeRef = k]
  IN IF fail = "input" THEN caught(s0)
     ELSE IF fail = "output" THEN caught(s1)
     ELSE [s2 EXCEPT !.startPc[k] = "awaitMedia"]

\* variant: the capture pipeline is set up right after connecting instead of
\* in the open callback
startSessionResume_earlyCapture(s, k) ==
  setupAudioInput([s EXCEPT !.streamRef = k, !.stream[k] = "live",
                            !.promise[k] = "pending",
                            !.conn[k] = "connecting",
                            !.sessionPromiseRef = k, !.startPc[k] = "done"], k)

\* startSession after getUserMedia resolved: connectToLiveSession
startSessionResume(s, k) ==
  [s EXCEPT !.streamRef = k, !.stream[k] = "live",
            !.promise[k] = "pending", !.conn[k] = "connecting",
            !.sessionPromiseRef = k, !.startPc[k] = "done"]

\* the four callbacks handed to connectToLiveSession by start k
onOpen(s, k) == setupAudioInput([s EXCEPT !.status = "connected"], k)

onClose(s) == [s EXCEPT !.status = "disconnected"]

onError(s) == [s EXCEPT !.status = "error"]

\* session.sendRealtimeInput({ media: pcmData }) in the then-callback
sendRealtimeInput(s, k, b) ==
  [s EXCEPT !.sends = Append(@, [k |-> k, b |-> b,
                                 opened |-> s.conn[k] \in {"open", "closed"}])]

\* session.close() in the then-callback registered by cleanup
sessionClose(s, k) == [s EXCEPT !.closeCalled[k] = TRUE]

RunTask(s, m) ==
  IF m.t = "play" THEN playAudioChunkResume(s, m.k, m.x)
  ELSE IF m.t = "send" THEN sendRealtimeInput(s, m.k, m.x)
  ELSE sessionClose(s, m.k)

\* ------------------------------------------------------------------ init
PlayerInit ==
  /\ isOpen = FALSE
  /\ status = "disconnected"
  /\ isMuted = FALSE
  /\ inputContextRef = 0 /\ outputContextRef = 0 /\ streamRef = 0
  /\ processorRef = 0 /\ sourceRef = 0 /\ outputNodeRef = 0
  /\ nextStartTimeRef = 0
  /\ activeSourcesRef = {}
  /\ sessionPromiseRef = 0
  /\ nstarts = 0
  /\ startPc = [k \in Inst |-> "idle"]
  /\ closureMuted = [k \in Inst |-> FALSE]
  /\ inCtx = [k \in Inst |-> "none"]
  /\ outCtx = [k \in Inst |-> "none"]
  /\ stream = [k \in Inst |-> "none"]
  /\ promise = [k \in Inst |-> "none"]
  /\ conn = [k \in Inst |-> "none"]
  /\ closeCalled = [k \in Inst |-> FALSE]
  /\ thenQueue = [k \in Inst |-> << >>]
  /\ processor = [k \in Inst |-> FALSE]
  /\ clock = [k \in Inst |-> 0]
  /\ nodes = << >>
  /\ resetSince = TRUE
  /\ microtasks = << >>
  /\ nblocks = 0
  /\ sends = << >>
  /\ volume = 0
  /\ lastOp = Quiet

\* no block is in the codec
CodecIdle ==
  /\ codecPc = "idle"
  /\ inputData = << >> /\ pcmData = << >>
  /\ arrayBuffer = << >> /\ channelData = << >>

Init == PlayerInit /\ CodecIdle

\* --------------------------------------------------------------- actions
\* isOpen false -> true: the effect's destructor (cleanup) and then the
\* effect body (startSession) run.
Open(maxStarts) ==
  /\ microtasks = << >>
  /\ ~isOpen
  /\ nstarts < maxStarts
  /\ \E fail \in {"none", "input", "output"} :
       LET k  == nstarts + 1
           s1 == cleanup([Cur EXCEPT !.isOpen = TRUE])
           s2 == startSession(s1, k, fail)
       IN Commit([s2 EXCEPT !.lastOp = Op("Open", k, fail # "none", FALSE)])

\* start k ran to the end of its try block: the connect call was made
StartCompleted(k) == startPc[k] = "done"

\* isOpen true -> false: the destructor (cleanup) and then the effect body
\* (cleanup again) run.
Close ==
  /\ microtasks = << >>
  /\ isOpen
  /\ LET s1 == cleanup([Cur EXCEPT !.isOpen = FALSE])
         s2 == cleanup(s1)
     IN Commit([s2 EXCEPT !.lastOp =
                  Op("Close", nstarts, StartCompleted(nstarts), FALSE)])

\* getUserMedia resolves and startSession resumes
MediaResolved(k) ==
  /\ microtasks = << >>
  /\ startPc[k] = "awaitMedia"
  /\ LET s1 == startSessionResume(Cur, k)
     IN Commit([s1 EXCEPT !.lastOp =
                  Op("MediaResolved", k, inCtx[k] = "closed", FALSE)])

\* getUserMedia rejects and startSession resumes in its catch block
MediaRejected(k) ==
  /\ microtasks = << >>
  /\ startPc[k] = "awaitMedia"
  /\ LET s1 == startSessionCatch(Cur, k)
     IN Commit([s1 EXCEPT !.lastOp = Op("MediaRejected", k, FALSE, FALSE)])

\* the connect promise resolves with the session handle; its queued
\* reactions become microtasks
ConnectResolve(k) ==
  /\ microtasks = << >>
  /\ promise[k] = "pending"
  /\ conn[k] \in {"connecting", "open"}
  /\ Commit([Cur EXCEPT !.promise[k] = "resolved",
                        !.microtasks = thenQueue[k],
                        !.thenQueue[k] = << >>,
                        !.lastOp = Quiet])

\* the connect promise rejects: its then-reactions never run
ConnectReject(k) ==
  /\ microtasks = << >>
  /\ promise[k] = "pending"
  /\ conn[k] \in {"connecting", "closedEarly"}
  /\ Commit([Cur EXCEPT !.promise[k] = "rejected",
                        !.conn[k] = "closedEarly",
                        !.thenQueue[k] = << >>,
                        !.lastOp = Quiet])

OnOpen(k) ==
  /\ microtasks = << >>
  /\ conn[k] = "connecting"
  /\ ~closeCalled[k]
  /\ LET s1 == onOpen([Cur EXCEPT !.conn[k] = "open"], k)
     IN Commit([s1 EXCEPT !.lastOp = Quiet])

OnClose(k) ==
  /\ microtasks = << >>
  /\ conn[k] \in {"connecting", "open"}
  /\ LET s0 == [Cur EXCEPT !.conn[k] =
                  IF conn[k] = "open" THEN "closed" ELSE "closedEarly"]
     IN Commit([onClose(s0) EXCEPT !.lastOp = Quiet])

OnError(k) ==
  /\ microtasks = << >>
  /\ conn[k] \in {"connecting", "open"}
  /\ Commit([onError(Cur) EXCEPT !.lastOp = Quiet])

\* an inbound message of session k; at most maxNodes nodes are created
OnMessage(k, maxNodes) ==
  /\ microtasks = << >>
  /\ conn[k] = "open"
  /\ \E byteLen \in Payloads, interrupted \in BOOLEAN :
       /\ byteLen # NoData => Len(nodes) < maxNodes
       /\ LET s1 == handleServerMessage(Cur, k, byteLen, interrupted)
              bad == byteLen # NoData /\ Malformed(byteLen)
          IN Commit([s1 EXCEPT !.lastOp =
                       IF interrupted \/ bad
                         THEN Op("OnMessage", k, interrupted, bad)
                         ELSE Quiet])

\* the audio subsystem delivers a block to the processor of start k
CaptureBlock(k, maxBlocks) ==
  /\ microtasks = << >>
  /\ processor[k]
  /\ inCtx[k] = "running"
  /\ nblocks < maxBlocks
  /\ \E block \in CaptureBlocks :
       LET s1 == onaudioprocess(Cur, k, block)
       IN Commit([s1 EXCEPT !.lastOp =
                    [Op("CaptureBlock", k, isMuted, s1.nblocks # nblocks)
                       EXCEPT !.x = block]])

\* variant: muting is done by stopping the microphone stream
ToggleMute_stopsStream ==
  /\ microtasks = << >>
  /\ isOpen
  /\ Commit([Cur EXCEPT !.isMuted = ~isMuted,
                        !.stream = [k \in Inst |->
                                      IF k = streamRef /\ ~isMuted
                                        THEN "stopped" ELSE stream[k]],
                        !.lastOp = Quiet])

\* toggleMute: setIsMuted(!isMuted)
ToggleMute ==
  /\ microtasks = << >>
  /\ isOpen
  /\ Commit([Cur EXCEPT !.isMuted = ~isMuted,
                        !.lastOp = Quiet])

\* the playback clock of a running output context advances
Tick(k, maxTime) ==
  /\ microtasks = << >>
  /\ outCtx[k] = "running"
  /\ clock[k] < maxTime
  /\ Commit([Cur EXCEPT !.clock[k] = @ + 1,
                        !.lastOp = Quiet])

\* the ended event of node n: it played to its end, or it was stopped
NodeEnded(n) ==
  /\ microtasks = << >>
  /\ \/ nodes[n].state = "stopped"
     \/ /\ nodes[n].state = "started"
        /\ clock[nodes[n].ctx] >= nodes[n].startAt + nodes[n].dur
  /\ Commit([onended(Cur, n) EXCEPT !.lastOp =
               Quiet])

RunMicrotask ==
  /\ microtasks # << >>
  /\ LET m  == Head(microtasks)
         s1 == RunTask([Cur EXCEPT !.microtasks = Tail(@)], m)
     IN Commit([s1 EXCEPT !.lastOp = Quiet])

Next ==
  \/ Open(MaxStarts)
  \/ Close
  \/ ToggleMute
  \/ RunMicrotask
  \/ \E k \in Inst : MediaResolved(k)
  \/ \E k \in Inst : MediaRejected(k)
  \/ \E k \in Inst : ConnectResolve(k)
  \/ \E k \in Inst : ConnectReject(k)
  \/ \E k \in Inst : OnOpen(k)
  \/ \E k \in Inst : OnClose(k)
  \/ \E k \in Inst : OnError(k)
  \/ \E k \in Inst : OnMessage(k, MaxNodes)
  \/ \E k \in Inst : CaptureBlock(k, MaxBlocks)
  \/ \E k \in Inst : Tick(k, MaxTime)
  \/ \E n \in DOMAIN nodes : NodeEnded(n)

Spec == Init /\ [][Next]_vars

NextPlayback ==
  \/ Open(PlayStarts)
  \/ Close
  \/ ToggleMute
  \/ RunMicrotask
  \/ \E k \in Inst : MediaResolved(k)
  \/ \E k \in Inst : MediaRejected(k)
  \/ \E k \in Inst : ConnectResolve(k)
  \/ \E k \in Inst : ConnectReject(k)
  \/ \E k \in Inst : OnOpen(k)
  \/ \E k \in Inst : OnClose(k)
  \/ \E k \in Inst : OnError(k)
  \/ \E k \in Inst : OnMessage(k, PlayNodes)
  \/ \E k \in Inst : CaptureBlock(k, PlayBlocks)
  \/ \E k \in Inst : Tick(k, PlayTime)
  \/ \E n \in DOMAIN nodes : NodeEnded(n)

SpecPlayback == Init /\ [][NextPlayback]_vars


\* ------------------------------------------------------------ audio codec

\* Math.max(-1, Math.min(1, data[i])), on numerators over SampleDen
Clamp(n) == Max(0 - SampleDen, Min(SampleDen, n))

\* the integer part of (a / SampleDen) * scale for a >= 0, computed on the
\* whole and the fractional part of a / SampleDen separately so that no
\* intermediate product leaves 32 bits
Scaled(a, scale) ==
  (a \div SampleDen) * scale + ((a % SampleDen) * scale) \div SampleDen

\* storing a number into an Int16Array element: its fraction is dropped
\* (truncation toward zero, so sign and magnitude are handled apart) and the
\* integer is reduced modulo 2^16 into -32768..32767
ToInt16(sign, magnitude) ==
  ((sign * magnitude + 32768) % 65536) - 32768

\* variant: both signs are scaled by 0x7FFF
Pcm16_sameScale(n) ==
  LET s == Clamp(n)
  IN IF s < 0 THEN ToInt16(0 - 1, Scaled(0 - s, PosScale))
              ELSE ToInt16(1, Scaled(s, PosScale))

\* int16[i] = s < 0 ? s * 0x8000 : s * 0x7FFF
Pcm16(n) ==
  LET s == Clamp(n)
  IN IF s < 0 THEN ToInt16(0 - 1, Scaled(0 - s, NegScale))
              ELSE ToInt16(1, Scaled(s, PosScale))

\* int16.buffer: the elements' two's-complement bytes, low byte first
BufferOf(int16) ==
  [i \in 1..(2 * Len(int16)) |->
     LET u == int16[(i + 1) \div 2] % 65536
     IN IF i % 2 = 1 THEN u % 256 ELSE u \div 256]

\* new Int16Array(arrayBuffer), for an even byte length
Int16View(bytes) ==
  [i \in 1..(Len(bytes) \div 2) |->
     LET u == bytes[2 * i - 1] + 256 * bytes[2 * i]
     IN IF u >= 32768 THEN u - 65536 ELSE u]

\* btoa of the binary string whose character codes are the bytes: every
\* group of three bytes gives four 6-bit digits; a last group of one or two
\* bytes is filled with zero bits and padded with '=' (written 64)
btoa(bytes) ==
  LET L == Len(bytes)
      at(i) == IF i <= L THEN bytes[i] ELSE 0
  IN [j \in 1..(4 * ((L + 2) \div 3)) |->
        LET g == (j - 1) \div 4
            p == (j - 1) % 4
            r == Min(3, L - 3 * g)
            w == at(3*g + 1) * 65536 + at(3*g + 2) * 256 + at(3*g + 3)
        IN IF p > r THEN 64
           ELSE IF p = 0 THEN w \div 262144
           ELSE IF p = 1 THEN (w \div 4096) % 64
           ELSE IF p = 2 THEN (w \div 64) % 64
           ELSE w % 64]

\* variant: the padding characters are decoded as zero digits
atob_keepPadding(text) ==
  [i \in 1..(3 * (Len(text) \div 4)) |->
     LET g == (i - 1) \div 3
         q == (i - 1) % 3
         d(j) == IF text[4*g + j] = 64 THEN 0 ELSE text[4*g + j]
         w == d(1) * 262144 + d(2) * 4096 + d(3) * 64 + d(4)
     IN IF q = 0 THEN w \div 65536
        ELSE IF q = 1 THEN (w \div 256) % 256
        ELSE w % 256]

\* atob of a padded base64 string: four digits give three bytes, less one
\* byte for every trailing '='
atob(text) ==
  LET M   == Len(text)
      pad == IF M = 0 THEN 0
             ELSE IF text[M] # 64 THEN 0
             ELSE IF text[M - 1] # 64 THEN 1 ELSE 2
  IN [i \in 1..(3 * (M \div 4) - pad) |->
        LET g == (i - 1) \div 3
            q == (i - 1) % 3
            d(j) == IF text[4*g + j] = 64 THEN 0 ELSE text[4*g + j]
            w == d(1) * 262144 + d(2) * 4096 + d(3) * 64 + d(4)
        IN IF q = 0 THEN w \div 65536
           ELSE IF q = 1 THEN (w \div 256) % 256
           ELSE w % 256]

\* String.fromCharCode over the bytes, then btoa
arrayBufferToBase64(bytes) == btoa(bytes)

\* atob, then charCodeAt into a Uint8Array
base64ToArrayBuffer(text) == atob(text)

\* createPcmBlob(data).data
createPcmBlob(data) ==
  arrayBufferToBase64(BufferOf([i \in 1..Len(data) |-> Pcm16(data[i])]))

\* the sample values a block may hold, and the blocks fed to the codec: every
\* single sample of the grid, every short block over a few extreme values
\* (including samples outside [-1, 1]), and one silent block of BlockSize
Numerators == (0 - SampleDen - OverRange)..(SampleDen + OverRange)

Extremes == {0 - SampleDen - OverRange, 0 - SampleDen, 0 - 1, 0,
             SampleDen \div 2, SampleDen}

Blocks ==
  {<< n >> : n \in Numerators}
    \cup UNION {[1..len -> Extremes] : len \in 0..MaxSamples}
    \cup {[i \in 1..BlockSize |-> 0]}

InitCodec ==
  /\ PlayerInit
  /\ codecPc = "input"
  /\ inputData \in Blocks
  /\ pcmData = << >> /\ arrayBuffer = << >> /\ channelData = << >>

\* the capture side encodes the block
Encode ==
  /\ codecPc = "input"
  /\ pcmData' = createPcmBlob(inputData)
  /\ codecPc' = "encoded"
  /\ UNCHANGED << playerVars, inputData, arrayBuffer, channelData >>

\* the playback side turns the base64 string back into bytes
Receive ==
  /\ codecPc = "encoded"
  /\ arrayBuffer' = base64ToArrayBuffer(pcmData)
  /\ codecPc' = "received"
  /\ UNCHANGED << playerVars, inputData, pcmData, channelData >>

\* decodeRawPcm on those bytes: an AudioBuffer of frameCount samples, or an
\* exception
Decode ==
  /\ codecPc = "received"
  /\ LET frameCount == decodeRawPcm(Len(arrayBuffer))
     IN IF frameCount = DecodeError
          THEN codecPc' = "failed" /\ channelData' = << >>
          ELSE /\ codecPc' = "decoded"
               /\ channelData' = [i \in 1..frameCount |->
                                    Int16View(arrayBuffer)[i]]
  /\ UNCHANGED << playerVars, inputData, pcmData, arrayBuffer >>

NextCodec == Encode \/ Receive \/ Decode

SpecCodec == InitCodec /\ [][NextCodec]_vars


\* ================================================================ claims
Flushed == lastOp.op = "OnMessage" /\ lastOp.f1

\* a node scheduled with no cursor reset since the node before it
Follows(i) == i > 1 /\ ~nodes[i].fresh

\* C1 as stated: for any two chunks enqueued in order with no flush between
\* them, the second starts exactly at the first one's start plus its duration.
C1_GaplessAlways ==
  \A i \in DOMAIN nodes :
    Follows(i) => nodes[i].startAt = nodes[i-1].startAt + nodes[i-1].dur

\* C1 amended: with no flush or session start between them, the second chunk
\* starts at the first one's start plus its duration, or at the playback
\* context's current time when the clock has already passed that point.
C1_GaplessUnlessUnderrun ==
  \A i \in DOMAIN nodes :
    Follows(i) =>
      nodes[i].startAt =
        Max(nodes[i-1].startAt + nodes[i-1].dur, nodes[i].schedAt)

C1_Witness ==
  \E i \in DOMAIN nodes :
    /\ Follows(i)
    /\ nodes[i-1].dur = 2
    /\ nodes[i].schedAt > nodes[i-1].schedAt
    /\ nodes[i].schedAt < nodes[i-1].startAt + nodes[i-1].dur
    /\ nodes[i].startAt = nodes[i-1].startAt + nodes[i-1].dur

C3_InterruptStopsAll ==
  /\ Flushed =>
       /\ activeSourcesRef = {}
       /\ \A n \in DOMAIN nodes : nodes[n].state # "started"
       /\ resetSince
  /\ \A i \in DOMAIN nodes :
       nodes[i].fresh => nodes[i].startAt = nodes[i].schedAt

C3_Witness ==
  /\ Len(nodes) = 3
  /\ nodes[1].state = "stopped" /\ nodes[2].state = "stopped"
  /\ ~nodes[2].fresh
  /\ nodes[3].fresh
  /\ nodes[3].startAt = nodes[3].schedAt
  /\ nodes[3].startAt < nodes[2].startAt + nodes[2].dur
  /\ activeSourcesRef = {3}
  /\ isOpen

\* C4 as stated: a capture callback that fires while the Mute Flag is set
\* sends no block.
C4_MutedBlocksNotSent ==
  (lastOp.op = "CaptureBlock" /\ lastOp.f1) => ~lastOp.f2

\* C5 as stated: after two teardowns in succession every resource handle is
\* null.
C5_TeardownNullsHandles ==
  lastOp.op = "Close" =>
    /\ sessionPromiseRef = 0
    /\ inputContextRef = 0 /\ outputContextRef = 0
    /\ streamRef = 0 /\ processorRef = 0 /\ sourceRef = 0
    /\ outputNodeRef = 0

\* C6 as stated: once the status is disconnected or error, no later event of
\* the session instance changes it.  A new start begins a new instance, and
\* teardown's own transition to disconnected (prescribed by the teardown
\* contract) is left aside, so only callbacks and a resumed start count.
C6_TerminalStatus ==
  [][(status \in {"disconnected", "error"}
        /\ lastOp'.op \notin {"Open", "Close"})
       => status' = status]_vars

\* C7: every sendRealtimeInput call is made on a session whose on-open
\* callback has already fired.
C7_NoSendBeforeOpen ==
  \A i \in DOMAIN sends : sends[i].opened

C7_Witness ==
  \E i \in DOMAIN sends : sends[i].opened /\ status = "connected"

\* C8 as stated: when teardown ran while start was awaiting the microphone,
\* then after start resumes no session is open without a close request, no
\* microphone track is live and the status is still disconnected.
C8_TeardownDuringStart ==
  (lastOp.op = "MediaResolved" /\ lastOp.f1 /\ ~isOpen) =>
    LET k == lastOp.k
    IN /\ stream[k] # "live"
       /\ status = "disconnected"
       /\ promise[k] = "pending" =>
            \E j \in DOMAIN thenQueue[k] : thenQueue[k][j].t = "close"

\* C9: a message whose audio payload is malformed (odd or zero byte length)
\* and that carries no interruption changes nothing: no node, no pending
\* continuation, the Active Playback Set and the cursor as before, so later
\* chunks are scheduled as if it had never arrived.
C9_BadChunkDropped ==
  [][(lastOp'.op = "OnMessage" /\ lastOp'.f2 /\ ~lastOp'.f1) =>
       UNCHANGED << isOpen, status, isMuted, inputContextRef,
                    outputContextRef, streamRef, processorRef, sourceRef,
                    outputNodeRef, nextStartTimeRef, activeSourcesRef,
                    sessionPromiseRef, nstarts, startPc, closureMuted,
                    inCtx, outCtx, stream, promise, conn, closeCalled,
                    thenQueue, processor, clock, nodes, resetSince,
                    microtasks, nblocks, sends, volume, codecVars >>]_vars

C9_Witness ==
  /\ lastOp.op = "OnMessage" /\ lastOp.f2 /\ ~lastOp.f1
  /\ activeSourcesRef # {}
  /\ nextStartTimeRef > 0
  /\ microtasks = << >>

\* C10: no node is ever given a start time earlier than the current time of
\* its playback context at the moment it is scheduled.
C10_NeverInThePast ==
  \A n \in DOMAIN nodes : nodes[n].startAt >= nodes[n].schedAt

C10_Witness ==
  \E n \in DOMAIN nodes :
    /\ nodes[n].ctx = 2
    /\ nodes[n].schedAt > 0
    /\ nodes[n].startAt = nodes[n].schedAt

\* C11: chunks are started in arrival order and never reordered: of two
\* chunks scheduled one after the other with no cursor reset between them,
\* the earlier one is scheduled no later and starts strictly earlier.
C11_StrictFifo ==
  \A i \in DOMAIN nodes :
    Follows(i) =>
      /\ nodes[i-1].startAt < nodes[i].startAt
      /\ nodes[i-1].ctx = nodes[i].ctx =>
           nodes[i-1].schedAt <= nodes[i].schedAt

C11_Witness ==
  /\ Len(nodes) = 3
  /\ Follows(2) /\ Follows(3)
  /\ nodes[1].schedAt < nodes[2].schedAt
  /\ nodes[2].schedAt < nodes[3].schedAt
  /\ nodes[1].startAt < nodes[2].startAt
  /\ nodes[2].startAt < nodes[3].startAt

\* C12: every member of the Active Playback Set is a started node whose
\* ended handler has not run; a node leaves the set only by being stopped
\* or by ending, and once out it never comes back (an ended event after a
\* flush or teardown finds it already removed and changes nothing else).
C12_ActiveSetInvariant ==
  [][/\ \A n \in activeSourcesRef' : nodes'[n].state = "started"
     /\ \A n \in DOMAIN nodes :
          /\ n \in activeSourcesRef \ activeSourcesRef' =>
               nodes'[n].state \in {"stopped", "ended"}
          /\ n \notin activeSourcesRef => n \notin activeSourcesRef'
          /\ (nodes[n].state = "stopped" /\ nodes'[n].state = "ended") =>
               /\ activeSourcesRef' = activeSourcesRef
               /\ nextStartTimeRef' = nextStartTimeRef]_vars

C12_Witness ==
  \E n, m \in DOMAIN nodes :
    /\ nodes[n].state = "ended"
    /\ clock[nodes[n].ctx] < nodes[n].startAt + nodes[n].dur
    /\ nodes[m].state = "started"
    /\ activeSourcesRef = {m}
    /\ isOpen

\* session.close() of start k has been called or is queued behind its promise
CloseRequested(k) ==
  \/ closeCalled[k]
  \/ \E i \in DOMAIN thenQueue[k] : thenQueue[k][i].t = "close"
  \/ \E i \in DOMAIN microtasks :
       microtasks[i].t = "close" /\ microtasks[i].k = k

\* C13: right after a teardown that began when start had completed, the close
\* of that session has been requested, no node is left started and the set is
\* empty, both of its audio contexts are closed, every microphone track is
\* stopped, and the status is disconnected.
C13_TeardownReleasesAll ==
  (lastOp.op = "Close" /\ lastOp.f1) =>
    /\ CloseRequested(lastOp.k) \/ promise[lastOp.k] = "rejected"
    /\ activeSourcesRef = {}
    /\ \A n \in DOMAIN nodes : nodes[n].state # "started"
    /\ inCtx[lastOp.k] = "closed" /\ outCtx[lastOp.k] = "closed"
    /\ stream[lastOp.k] # "live"
    /\ status = "disconnected"

\* C14: when an AudioContext constructor throws or getUserMedia rejects, the
\* status is error right after the catch block, and that start attempt never
\* calls connect, never opens a session, never installs the capture
\* processor and never sends a block.
C14_AcquisitionFailure ==
  /\ (lastOp.op = "MediaRejected" \/ (lastOp.op = "Open" /\ lastOp.f1)) =>
       /\ status = "error"
       /\ startPc[lastOp.k] = "failed"
  /\ \A k \in Inst :
       startPc[k] = "failed" =>
         /\ promise[k] = "none" /\ conn[k] = "none"
         /\ stream[k] = "none"
         /\ ~processor[k]
         /\ \A i \in DOMAIN sends : sends[i].k # k

C14_Witness ==
  /\ lastOp.op = "MediaRejected"
  /\ isOpen
  /\ status = "error"
  /\ inCtx[lastOp.k] = "running"
  /\ promise[lastOp.k] = "none"

\* C15: when the promise returned by connect rejects, the open session does
\* not stay in status connecting.
C15_ConnectRejectReported ==
  \A k \in Inst :
    (isOpen /\ sessionPromiseRef = k /\ promise[k] = "rejected") =>
      status # "connecting"

\* C16: a step that flips the Mute Flag changes nothing else: the status, the
\* session reference, the contexts, the Active Playback Set, the cursor and
\* every other resource a later teardown reads or releases stay as they were
\* (so the teardown that follows behaves as if mute had not been toggled).
C16_MuteTouchesOnlyFlag ==
  [][isMuted' # isMuted =>
       /\ UNCHANGED << isOpen, status, inputContextRef, outputContextRef,
                       streamRef, processorRef, sourceRef, outputNodeRef,
                       nextStartTimeRef, activeSourcesRef, sessionPromiseRef,
                       nstarts, startPc, closureMuted, inCtx, outCtx, stream,
                       promise, conn, closeCalled, thenQueue, processor,
                       clock, nodes, resetSince, microtasks, nblocks, sends,
                       volume, codecVars >>
       /\ cleanup([Cur EXCEPT !.isMuted = ~isMuted]) =
            [cleanup(Cur) EXCEPT !.isMuted = ~isMuted]]_vars

C16_Witness ==
  /\ isMuted
  /\ lastOp = Quiet
  /\ status = "connected"
  /\ activeSourcesRef # {}
  /\ sessionPromiseRef # 0
  /\ \E k \in Inst : stream[k] = "live" /\ streamRef = k

\* a step that handles an interruption while the Active Playback Set is empty
FlushOnEmpty ==
  /\ activeSourcesRef = {}
  /\ lastOp'.op = "OnMessage" /\ lastOp'.f1

Abs(a) == IF a < 0 THEN 0 - a ELSE a

InRange(n) == 0 - SampleDen <= n /\ n <= SampleDen

\* sample i came back with the sign it had, or as zero
SignKept(i) ==
  \/ channelData[i] = 0
  \/ (channelData[i] < 0) = (inputData[i] < 0)

\* how much magnitude sample i lost on the round trip, as a numerator over
\* SampleDen * DecodeScale:  |x| * DecodeScale - |decoded| * SampleDen, with
\* the whole and the fractional part of |x| multiplied separately
MagnitudeLost(i) ==
  LET a == Abs(Clamp(inputData[i]))
      m == Abs(channelData[i])
  IN SampleDen * ((a \div SampleDen) * DecodeScale - m)
       + (a % SampleDen) * DecodeScale

\* C18 as stated: every sample in [-1, 1] comes back from encode and decode
\* within 1/32768 of itself.
C18_WithinOneStep ==
  codecPc = "decoded" =>
    \A i \in DOMAIN inputData :
      InRange(inputData[i]) =>
        /\ SignKept(i)
        /\ Abs(MagnitudeLost(i)) <= SampleDen

\* C18 amended: a sample comes back from encode and decode (after clamping
\* to [-1, 1]) with its sign, no larger in magnitude than it was, less than
\* 2/32768 away when it is non-negative and less than 1/32768 away when it
\* is negative.
C18_WithinTwoSteps ==
  codecPc = "decoded" =>
    \A i \in DOMAIN inputData :
      /\ SignKept(i)
      /\ 0 <= MagnitudeLost(i)
      /\ MagnitudeLost(i) < (IF inputData[i] >= 0 THEN 2 * SampleDen
                                                  ELSE SampleDen)

C18_Witness ==
  /\ codecPc = "decoded"
  /\ \E i \in DOMAIN inputData :
       /\ InRange(inputData[i])
       /\ MagnitudeLost(i) > SampleDen

\* the 16-bit values createPcmBlob computes for the block
Quantized == [i \in 1..Len(inputData) |-> Pcm16(inputData[i])]

\* C19 as stated: a block of n samples is encoded to 2n bytes, base64 gives
\* those bytes back, and decoding them yields n samples.
C19_CountPreserved ==
  /\ codecPc \in {"received", "decoded", "failed"} =>
       /\ Len(arrayBuffer) = 2 * Len(inputData)
       /\ arrayBuffer = BufferOf(Quantized)
  /\ codecPc \in {"decoded", "failed"} =>
       /\ codecPc = "decoded"
       /\ Len(channelData) = Len(inputData)

\* C19 amended: a block of n samples is encoded to 2n bytes (4096 samples to
\* 8192 bytes), carried by a base64 string of 4 * ceil(2n / 3) characters
\* that decodes to exactly those bytes, and decoding them yields the n
\* 16-bit values that were encoded when n >= 1; for n = 0 decoding fails.
C19_CountPreservedNonEmpty ==
  /\ codecPc \in {"encoded", "received", "decoded", "failed"} =>
       Len(pcmData) = 4 * ((2 * Len(inputData) + 2) \div 3)
  /\ codecPc \in {"received", "decoded", "failed"} =>
       /\ Len(arrayBuffer) = 2 * Len(inputData)
       /\ arrayBuffer = BufferOf(Quantized)
       /\ Len(inputData) = BlockSize => Len(arrayBuffer) = 8192
  /\ codecPc = "decoded" =>
       /\ Len(inputData) >= 1
       /\ Len(channelData) = Len(inputData)
       /\ channelData = Quantized
  /\ codecPc = "failed" => Len(inputData) = 0

C19_Witness ==
  /\ codecPc = "decoded"
  /\ Len(inputData) = 2
  /\ Len(arrayBuffer) = 4
  /\ \E i \in DOMAIN pcmData : pcmData[i] = 64
  /\ \E i, j \in DOMAIN channelData : channelData[i] < 0 /\ channelData[j] > 0

\* the calls of sendRealtimeInput on one session follow the capture order
SendsInCaptureOrder ==
  \A i, j \in DOMAIN sends :
    (i < j /\ sends[i].k = sends[j].k) => sends[i].b < sends[j].b

\* C20: every capture callback that fires while the Mute Flag is off encodes
\* one block and hands it to the session promise, and the blocks reach
\* sendRealtimeInput of that session in the order they were captured, each
\* at most once.
C20_CaptureOrder ==
  /\ (lastOp.op = "CaptureBlock" /\ ~lastOp.f1) => lastOp.f2
  /\ SendsInCaptureOrder

\* a step in which the stop loop of a flush or of a teardown meets a member
\* whose stop() raises
StopErrorStep ==
  /\ \E n \in activeSourcesRef : StopRaises(Cur, n)
  /\ \/ lastOp'.op = "OnMessage" /\ lastOp'.f1
     \/ lastOp'.op \in {"Close", "Open"}

\* C21: when stop() raises for some member during a flush or a teardown, the
\* handler still runs to its end: every member (the raising one and all the
\* others) is no longer started, the set is empty, and the flush has reset
\* the cursor, the teardown has closed the output context and set its status.
C21_StopErrorsSwallowed ==
  [][StopErrorStep =>
       /\ \A n \in activeSourcesRef : nodes'[n].state = "stopped"
       /\ activeSourcesRef' = {}
       /\ lastOp'.op = "OnMessage" => nextStartTimeRef' = 0
       /\ lastOp'.op = "Close" =>
            /\ status' = "disconnected"
            /\ \A n \in activeSourcesRef : outCtx'[nodes[n].ctx] = "closed"
       /\ lastOp'.op = "Open" => nextStartTimeRef' = 0]_vars

C21_Witness ==
  /\ Flushed
  /\ activeSourcesRef = {}
  /\ \E n, m \in DOMAIN nodes :
       /\ n < m
       /\ nodes[n].state = "stopped" /\ nodes[n].stopError
       /\ nodes[m].state = "stopped" /\ ~nodes[m].stopError

\* the continuation of playAudioChunk is pending behind a message that also
\* carried the interruption flag
FlushedWithAudio ==
  /\ Flushed
  /\ microtasks # << >>
  /\ Head(microtasks).t = "play"

\* C22: when one message carries audio and the interruption flag, then once
\* the continuation of its enqueue has run, no node is started and the
\* Active Playback Set is empty.
C22_InterruptedChunkSilenced ==
  [][FlushedWithAudio =>
       /\ activeSourcesRef' = {}
       /\ \A n \in DOMAIN nodes' : nodes'[n].state # "started"]_vars

\* C23: the cursor never decreases except in a flush or a session start, and
\* of two chunks scheduled one after the other with no cursor reset between
\* them the later one starts no earlier than the end of the earlier one.
C23_NoOverlap ==
  [][/\ ~(\/ lastOp'.op = "OnMessage" /\ lastOp'.f1
          \/ lastOp'.op = "Open") =>
         nextStartTimeRef' >= nextStartTimeRef
     /\ \A i \in DOMAIN nodes' :
          (i > 1 /\ ~nodes'[i].fresh) =>
            nodes'[i].startAt >= nodes'[i-1].startAt + nodes'[i-1].dur]_vars

C23_Witness ==
  /\ Len(nodes) = 3
  /\ Follows(2) /\ Follows(3)
  /\ nodes[2].startAt > nodes[1].startAt + nodes[1].dur
  /\ nodes[3].startAt = nodes[2].startAt + nodes[2].dur
  /\ nextStartTimeRef = nodes[3].startAt + nodes[3].dur

\* an enqueue has begun (its payload is decoded) and has not yet started its
\* node, advanced the cursor and registered the node
EnqueueInProgress ==
  \E i \in DOMAIN microtasks : microtasks[i].t = "play"

\* C24: nothing runs between the beginning and the end of an enqueue: while
\* one is in progress no flush has run since it began, and the next step is
\* its own completion (no teardown, start, flush or other enqueue).
C24_EnqueueAtomic ==
  [][EnqueueInProgress =>
       /\ ~Flushed
       /\ Len(nodes') = Len(nodes) + 1
       /\ ~EnqueueInProgress']_vars

\* the remote sessions that are open and have no close request issued or
\* queued
OpenUnclosed == {k \in Inst : conn[k] = "open" /\ ~CloseRequested(k)}

\* C25: at any time at most one remote session is open without a pending
\* close request.
C25_OneLiveSession == Cardinality(OpenUnclosed) <= 1

\* C26: from a teardown until the next start the Active Playback Set is
\* empty and no node is started, also when a session whose close the
\* teardown has requested still delivers audio.
C26_EmptyAfterTeardown ==
  (~isOpen /\ \A k \in Inst : conn[k] = "open" => CloseRequested(k)) =>
    /\ activeSourcesRef = {}
    /\ \A n \in DOMAIN nodes : nodes[n].state # "started"

\* a step in which sendRealtimeInput is called on session k
SendStep(k) ==
  /\ Len(sends') = Len(sends) + 1
  /\ sends'[Len(sends')].k = k

\* C27 as stated: once a teardown has requested the close of a session (the
\* close is called or queued), sendRealtimeInput is not called on it again.
C27_NoSendAfterCloseRequested ==
  [][\A k \in Inst : SendStep(k) => ~CloseRequested(k)]_vars

\* C27 amended: sendRealtimeInput is never called on a session after
\* close() has been called on it.
C27_NoSendAfterCloseCalled ==
  [][\A k \in Inst : SendStep(k) => ~closeCalled[k]]_vars

C27_Witness ==
  \E k \in Inst :
    /\ closeCalled[k]
    /\ processor[k]
    /\ \E i \in DOMAIN sends : sends[i].k = k
    /\ inCtx[k] = "closed"

Silent(block) == \A i \in DOMAIN block : block[i] = 0

\* C28: after any capture block delivered while the Mute Flag is off, the
\* loudness is min(5 * RMS(block), 1), hence within [0, 1]; it is exactly 0
\* for an all-zero block; and the block has been encoded and handed to the
\* session for sending.
C28_LoudnessAfterCapture ==
  [][(lastOp'.op = "CaptureBlock" /\ ~lastOp'.f1) =>
       /\ volume' = Loudness(lastOp'.x)
       /\ 0 <= volume' /\ volume' <= VolumeDen
       /\ Silent(lastOp'.x) => volume' = 0
       /\ lastOp'.f2]_vars

====
